---- MODULE Spec2Model ----
(***************************************************************************)
(* lywsd03mmc-exporter: beacon decoders and the liveness tracker.          *)
(*                                                                         *)
(* Byte slices are sequences of 0..255; Go's 0-based data[i] is At(data,i) *)
(* and data[lo:hi] is Slice(data, lo, hi).  float64 values are held as     *)
(* integers in thousandths (26.8 is 26800), which is exact for every       *)
(* scaling the program applies (/10.0, /100.0, /1000.0).                   *)
(***************************************************************************)
EXTENDS Integers, Sequences, FiniteSets, TLC

VARIABLES
    expirers,      \* map[string]*time.Timer: mac -> timer id, 0 when absent
    timers,        \* the time.Timer objects created so far
    expirersLock,  \* sync.Mutex: "free" or the goroutine holding it
    gauges,        \* the six GaugeVecs: metric -> mac -> value or NoSeries
    procs,         \* the handler goroutines (scan and notification callbacks)
    callbacks,     \* running timer functions: <<mac, pc>> -> how many
    crashed,       \* the process died of a runtime panic
    received,      \* number of advertisements and notifications delivered
    dropped,       \* of those, how many returned without calling bump: all of
                   \* them, and those that came while a timer was pending
    quiet,         \* per mac: what is left of the duration of the last bump
    withdrawals,   \* per mac: withdrawals begun since the entry was last created
    data,          \* decoder harness: the payload
    frameMac,      \* decoder harness: the advertisement's address
    edits,         \* decoder harness: bytes changed so far
    out,           \* decoder harness: what the decoders returned
    keyfile,       \* loadKeys: the lines of the key file
    lines,         \* loadKeys: the lines of the key file not yet read
    loaded         \* loadKeys: the entries of decryptionKeys written so far

cvars == <<expirers, timers, expirersLock, gauges, procs, callbacks,
           crashed, received, dropped, quiet, withdrawals>>
dvars == <<data, frameMac, edits, out>>
kvars == <<keyfile, lines, loaded>>
vars == <<expirers, timers, expirersLock, gauges, procs, callbacks,
          crashed, received, dropped, quiet, withdrawals,
          data, frameMac, edits, out, keyfile, lines, loaded>>

----------------------------------------------------------------------------
(* Bytes, slices, integers *)

Byte == 0..255

At(s, i) == s[i + 1]

Slice(s, lo, hi) == SubSeq(s, lo + 1, hi)

\* binary.BigEndian.Uint16(b)
BigEndianUint16(b) == b[1] * 256 + b[2]

\* binary.LittleEndian.Uint16(b)
LittleEndianUint16(b) == b[1] + b[2] * 256

\* A plausible slip: the field read as if it were already signed-free.
decodeSignUnsigned(i) == i

decodeSign(i) == IF i < 32768 THEN i ELSE i - 65536

\* float64(x) / 10.0, / 100.0, / 1000.0 and float64(x), in thousandths
Div10(x) == x * 100
Div100(x) == x * 10
Div1000(x) == x
Float(x) == x * 1000

HexDigits == <<"0", "1", "2", "3", "4", "5", "6", "7",
               "8", "9", "A", "B", "C", "D", "E", "F">>

\* fmt.Sprintf("%02X", b)
Hex02X(b) == HexDigits[(b \div 16) + 1] \o HexDigits[(b % 16) + 1]

RECURSIVE HexX(_)
\* fmt.Sprintf("%X", bytes): two uppercase digits per byte, no separators
HexX(bytes) ==
    IF bytes = <<>> THEN "" ELSE Hex02X(Head(bytes)) \o HexX(Tail(bytes))

----------------------------------------------------------------------------
(* sensorData and the two plaintext decoders *)

\* sensorData{}
EmptySensorData ==
    [mac |-> "", temp |-> 0, hum |-> 0, batp |-> 0, batv |-> 0, frame |-> 0]

\* A plausible slip: the address comparison left out.
decodeATCDataNoMacCheck(d, fm) ==
    IF Len(d) # 13
    THEN [sd |-> EmptySensorData, err |-> "invalid data length"]
    ELSE [sd |-> [mac   |-> HexX(Slice(d, 0, 6)),
                  temp  |-> Div10(decodeSign(BigEndianUint16(Slice(d, 6, 8)))),
                  hum   |-> Float(At(d, 8)),
                  batp  |-> Float(At(d, 9)),
                  batv  |-> Div1000(BigEndianUint16(Slice(d, 10, 12))),
                  frame |-> Float(At(d, 12))],
          err |-> "nil"]

decodeATCData(d, fm) ==
    IF Len(d) # 13
    THEN [sd |-> EmptySensorData, err |-> "invalid data length"]
    ELSE LET mac == HexX(Slice(d, 0, 6)) IN
         IF mac # fm
         THEN [sd |-> EmptySensorData, err |-> "MAC mismatch"]
         ELSE [sd |-> [mac   |-> mac,
                       temp  |-> Div10(decodeSign(BigEndianUint16(Slice(d, 6, 8)))),
                       hum   |-> Float(At(d, 8)),
                       batp  |-> Float(At(d, 9)),
                       batv  |-> Div1000(BigEndianUint16(Slice(d, 10, 12))),
                       frame |-> Float(At(d, 12))],
               err |-> "nil"]

RECURSIVE ReverseHex(_, _)
\* for i := 5; i >= 0; i-- { mac += fmt.Sprintf("%02X", data[i]) }, from i down
ReverseHex(d, i) ==
    IF i < 0 THEN "" ELSE Hex02X(At(d, i)) \o ReverseHex(d, i - 1)

\* A plausible slip: the frame counter taken from the flag byte.
decodePVVXDataFlagAsFrame(d, fm) ==
    IF Len(d) # 15
    THEN [sd |-> EmptySensorData, err |-> "invalid data length"]
    ELSE LET mac == ReverseHex(d, 5) IN
         IF mac # fm
         THEN [sd |-> EmptySensorData, err |-> "MAC mismatch"]
         ELSE [sd |-> [mac   |-> mac,
                       temp  |-> Div100(decodeSign(LittleEndianUint16(Slice(d, 6, 8)))),
                       hum   |-> Div100(decodeSign(LittleEndianUint16(Slice(d, 8, 10)))),
                       batv  |-> Div1000(LittleEndianUint16(Slice(d, 10, 12))),
                       batp  |-> Float(At(d, 12)),
                       frame |-> Float(At(d, 14))],
               err |-> "nil"]

decodePVVXData(d, fm) ==
    IF Len(d) # 15
    THEN [sd |-> EmptySensorData, err |-> "invalid data length"]
    ELSE LET mac == ReverseHex(d, 5) IN
         IF mac # fm
         THEN [sd |-> EmptySensorData, err |-> "MAC mismatch"]
         ELSE [sd |-> [mac   |-> mac,
                       temp  |-> Div100(decodeSign(LittleEndianUint16(Slice(d, 6, 8)))),
                       hum   |-> Div100(decodeSign(LittleEndianUint16(Slice(d, 8, 10)))),
                       batv  |-> Div1000(LittleEndianUint16(Slice(d, 10, 12))),
                       batp  |-> Float(At(d, 12)),
                       frame |-> Float(At(d, 13))],
               err |-> "nil"]

----------------------------------------------------------------------------
(* Constants of the program; time is counted in units of 25 seconds *)

Sensor == "LYWSD03MMC"

ExpiryAtc == 1

ExpiryStock == 60

ExpiryConn == 1

Metrics ==
    <<"tempGauge", "humGauge", "battGauge", "voltGauge", "frameGauge",
      "rssiGauge">>

\* A gauge's child for (Sensor, mac): absent, or <<value>>
NoSeries == <<>>

----------------------------------------------------------------------------
(* The devices in range and the key file's content *)

AddrA == <<76, 89, 87, 83, 68, 48>>
AddrB == <<164, 193, 56, 1, 2, 3>>

MacA == "4C5957534430"
MacB == "A4C138010203"

Macs == {MacA, MacB}

RECURSIVE Reverse(_)
Reverse(s) == IF s = <<>> THEN <<>> ELSE Reverse(Tail(s)) \o <<Head(s)>>

KeyB == [i \in 1..16 |-> 16 + i]

\* decryptionKeys after loadKeys: a key for MacB, none for MacA
decryptionKeys == [m \in {MacB} |-> KeyB]

----------------------------------------------------------------------------
(* AES-CCM (github.com/pschlump/AesCCM), 4-byte tag, nonce size 12.         *)
(* The cipher is stood in for by a keyed stream and a keyed 4-byte          *)
(* checksum: what the program relies on is that Open returns the plaintext  *)
(* when the tag fits key, nonce, plaintext and associated data, and an      *)
(* error otherwise.                                                         *)

RECURSIVE WeightedSum(_, _)
WeightedSum(s, k) ==
    IF s = <<>> THEN 0 ELSE (k * Head(s) + WeightedSum(Tail(s), k + 1)) % 65521

\* The mode is built for 12 nonce bytes and reads no more than those.
CcmSeed(key, nonce) ==
    (WeightedSum(key, 1) + WeightedSum(SubSeq(nonce, 1, 12), 1)) % 65521

CcmStream(key, nonce, i) == (CcmSeed(key, nonce) + 7 * i) % 256

CcmTag(key, nonce, plain, aad) ==
    LET t == (CcmSeed(key, nonce) + WeightedSum(plain, 3) + WeightedSum(aad, 5)
              + Len(plain)) % 65521
    IN  <<t % 256, (t \div 256) % 256, (t + 91) % 256, (t \div 7) % 256>>

\* ccm.Seal, as the sensor applies it
CcmSeal(key, nonce, plain, aad) ==
    [i \in 1..Len(plain) |-> (plain[i] + CcmStream(key, nonce, i)) % 256]
        \o CcmTag(key, nonce, plain, aad)

\* ccm.Open(dst, nonce, ciphertext, aad) with an empty dst
CcmOpen(key, nonce, ciphertext, aad) ==
    IF Len(ciphertext) < 4
    THEN [err |-> "ciphertext too short", dst |-> <<>>]
    ELSE LET n == Len(ciphertext) - 4
             plain == [i \in 1..n |->
                          (ciphertext[i] + 256 - CcmStream(key, nonce, i)) % 256]
         IN  IF SubSeq(ciphertext, n + 1, n + 4) = CcmTag(key, nonce, plain, aad)
             THEN [err |-> "nil", dst |-> plain]
             ELSE [err |-> "authentication failed", dst |-> <<>>]

Aad == <<17>>

----------------------------------------------------------------------------
(* What a handler does with one payload: return without effect, die of a   *)
(* runtime panic, or bump(mac, expiry) and then set the gauges of pubs in  *)
(* order.                                                                  *)

Return == [outcome |-> "return", mac |-> "", expiry |-> 0, pubs |-> <<>>]

Panic == [outcome |-> "panic", mac |-> "", expiry |-> 0, pubs |-> <<>>]

Publish(mac, expiry, pubs) ==
    [outcome |-> "publish", mac |-> mac, expiry |-> expiry, pubs |-> pubs]

\* ciphertext := data[11:len(data)-7] ++ data[len(data)-4:]
Ciphertext(d) == Slice(d, 11, Len(d) - 7) \o Slice(d, Len(d) - 4, Len(d))

\* A plausible slip: the sensor type put before the address.
NonceTypeFirst(d) ==
    Slice(d, 2, 5) \o Slice(d, 5, 11) \o Slice(d, Len(d) - 7, Len(d) - 4)

\* nonce := data[5:11] ++ data[2:5] ++ data[len(data)-7:len(data)-4]
Nonce(d) ==
    Slice(d, 5, 11) \o Slice(d, 2, 5) \o Slice(d, Len(d) - 7, Len(d) - 4)

\* In a handler's list of gauge writes: the statement that panics
PanicStep == <<"panic", 0>>

\* dst[lo:hi] of the slice ccm.Open returned: a slice expression is checked
\* against the capacity, and within it reads what the backing array holds
\* behind dst (spare)
InCap(dst, spare, hi) == hi <= Len(dst) + Len(spare)

\* The part of decryptData after a successful Open: bump, then the reads of
\* dst, of which the first out of range ends the process
decryptedRecord(mac, dst, spare, rssi) ==
    LET backing == dst \o spare IN
    Publish(mac, ExpiryStock,
        IF Len(dst) < 1
        THEN <<PanicStep>>
        ELSE IF At(dst, 0) \in {4, 6} /\ ~InCap(dst, spare, 5)
        THEN <<PanicStep>>
        ELSE IF At(dst, 0) = 10 /\ Len(dst) < 4
        THEN <<PanicStep>>
        ELSE (IF At(dst, 0) = 4
              THEN << <<"tempGauge", Div10(LittleEndianUint16(Slice(backing, 3, 5)))>> >>
              ELSE <<>>)
          \o (IF At(dst, 0) = 6
              THEN << <<"humGauge", Div10(LittleEndianUint16(Slice(backing, 3, 5)))>> >>
              ELSE <<>>)
          \o (IF At(dst, 0) = 10
              THEN << <<"battGauge", Float(At(dst, 3))>> >>
              ELSE <<>>)
          \o << <<"rssiGauge", Float(rssi)>> >>)

\* A plausible slip: the key lookup's failure not checked.
decryptDataAnyKey(d, fm, spare, rssi) ==
    IF Len(d) < 11 + 3 + 4
    THEN Return
    ELSE LET mac == HexX(<<At(d, 10), At(d, 9), At(d, 8), At(d, 7), At(d, 6), At(d, 5)>>) IN
         IF mac # fm
         THEN Return
         ELSE LET opened == CcmOpen(KeyB, Nonce(d), Ciphertext(d), Aad) IN
              IF opened.err # "nil"
              THEN Return
              ELSE decryptedRecord(mac, opened.dst, spare, rssi)

\* decryptData(data, frameMac, rssi); spare is what the backing array of the
\* slice ccm.Open allocates holds behind the plaintext
decryptData(d, fm, spare, rssi) ==
    IF Len(d) < 11 + 3 + 4
    THEN Return
    ELSE LET mac == HexX(<<At(d, 10), At(d, 9), At(d, 8), At(d, 7), At(d, 6), At(d, 5)>>) IN
         IF mac # fm
         THEN Return
         ELSE IF mac \notin DOMAIN decryptionKeys
         THEN Return
         ELSE LET opened == CcmOpen(decryptionKeys[mac], Nonce(d), Ciphertext(d), Aad) IN
              IF opened.err # "nil"
              THEN Return
              ELSE decryptedRecord(mac, opened.dst, spare, rssi)

\* What decryptData hands to ccm.Open, when it gets that far
openArguments(d, fm) ==
    IF Len(d) < 11 + 3 + 4
    THEN [called |-> FALSE, nonce |-> <<>>, ciphertext |-> <<>>]
    ELSE LET mac == HexX(<<At(d, 10), At(d, 9), At(d, 8), At(d, 7), At(d, 6), At(d, 5)>>) IN
         IF mac # fm \/ mac \notin DOMAIN decryptionKeys
         THEN [called |-> FALSE, nonce |-> <<>>, ciphertext |-> <<>>]
         ELSE [called |-> TRUE, nonce |-> Nonce(d), ciphertext |-> Ciphertext(d)]

\* dst, err := ccm.Open([]byte{}, nonce, ciphertext, Aad), when decryptData
\* gets that far
openResult(d, fm) ==
    LET args == openArguments(d, fm) IN
    IF args.called
    THEN CcmOpen(decryptionKeys[fm], args.nonce, args.ciphertext, Aad)
    ELSE [err |-> "not called", dst |-> <<>>]

\* The part of registerData after a successful decode
registerSensorData(sd, rssi) ==
    Publish(sd.mac, ExpiryAtc,
            << <<"tempGauge", sd.temp>>, <<"humGauge", sd.hum>>,
               <<"battGauge", sd.batp>>, <<"voltGauge", sd.batv>>,
               <<"frameGauge", sd.frame>>, <<"rssiGauge", Float(rssi)>> >>)

registerData(d, fm, rssi) ==
    IF Len(d) = 13
    THEN LET r == decodeATCData(d, fm) IN
         IF r.err # "nil" THEN Return ELSE registerSensorData(r.sd, rssi)
    ELSE IF Len(d) = 15
    THEN LET r == decodePVVXData(d, fm) IN
         IF r.err # "nil" THEN Return ELSE registerSensorData(r.sd, rssi)
    ELSE Return

\* The closures subscribed by pollData, applied to a notification req
decodeStockCharacteristic(mac, req) ==
    IF Len(req) < 5
    THEN Panic
    ELSE Publish(mac, ExpiryConn,
            << <<"tempGauge", Div100(LittleEndianUint16(Slice(req, 0, 2)))>>,
               <<"humGauge", Float(At(req, 2))>>,
               <<"voltGauge", Div1000(LittleEndianUint16(Slice(req, 3, 5)))>> >>)

decodeAtcTemp(mac, req) ==
    IF Len(req) < 2
    THEN Panic
    ELSE Publish(mac, ExpiryConn,
            << <<"tempGauge", Div10(decodeSign(LittleEndianUint16(Slice(req, 0, 2))))>> >>)

decodeAtcHumidity(mac, req) ==
    IF Len(req) < 2
    THEN Panic
    ELSE Publish(mac, ExpiryConn,
            << <<"humGauge", Div100(LittleEndianUint16(Slice(req, 0, 2)))>> >>)

decodeAtcBattery(mac, req) ==
    IF Len(req) < 1
    THEN Panic
    ELSE Publish(mac, ExpiryConn, << <<"battGauge", Float(At(req, 0))>> >>)

\* The slice ccm.Open returns has no spare capacity: no advertisement of
\* the scan below gets as far as reading it
NoSpare == <<>>

\* One entry of a.ServiceData(), as advHandler routes it
EnvironmentalSensingUUID == "181a"
XiaomiIncUUID == "fe95"

advDispatch(sd, mac, rssi) ==
    IF sd.uuid = EnvironmentalSensingUUID
    THEN registerData(sd.data, mac, rssi)
    ELSE IF sd.uuid = XiaomiIncUUID
    THEN decryptData(sd.data, mac, NoSpare, rssi)
    ELSE Return

----------------------------------------------------------------------------
(* What the radio delivers: advertisements and notifications *)

\* Most advertisements and notifications the model delivers in one run
MaxInputs == 3

\* Format A payloads of device A: 26.8 degrees, and -10.0 degrees
AtcWarm == AddrA \o <<1, 12, 53, 100, 11, 184, 123>>
AtcCold == AddrA \o <<255, 156, 40, 90, 11, 84, 124>>

\* Format B payload of device A
PvvxWarm == Reverse(AddrA) \o <<120, 10, 180, 20, 184, 11, 100, 123, 0>>

\* An encrypted-format payload as a sensor holding key builds it
XiaomiFrame(addr, key, inner, counter) ==
    LET head   == <<88, 88, 91, 5, 1>>
        nonce  == Reverse(addr) \o SubSeq(head, 3, 5) \o counter
        sealed == CcmSeal(key, nonce, inner, Aad)
        n      == Len(inner)
    IN  head \o Reverse(addr) \o SubSeq(sealed, 1, n) \o counter
             \o SubSeq(sealed, n + 1, n + 4)

XiaomiTemp == XiaomiFrame(AddrB, KeyB, <<4, 16, 2, 12, 1>>, <<7, 0, 0>>)

\* The same payload with one ciphertext byte changed in flight
XiaomiTampered == [XiaomiTemp EXCEPT ![12] = (XiaomiTemp[12] + 1) % 256]

\* A payload of device A, for which the key file holds no key
XiaomiNoKey == XiaomiFrame(AddrA, KeyB, <<4, 16, 2, 12, 1>>, <<7, 0, 0>>)

ServiceData(uuid, d) == [uuid |-> uuid, data |-> d]

\* An advertisement: its address, its RSSI and its one service data entry
Advertisement(mac, rssi, sd) == [mac |-> mac, rssi |-> rssi, sd |-> sd]

\* The advertisements in the air.  Device A is heard in both plaintext
\* formats; of device B only payloads that do not decode are heard.
Advertisements ==
    { Advertisement(MacA, -60, ServiceData("181a", AtcWarm)),
      Advertisement(MacA, -60, ServiceData("181a", PvvxWarm)),
      Advertisement(MacA, -60, ServiceData("181a", SubSeq(AtcWarm, 1, 12))),
      Advertisement(MacA, -60, ServiceData("180f", <<100>>)),
      Advertisement(MacB, -60, ServiceData("181a", AtcWarm)),
      Advertisement(MacB, -80, ServiceData("fe95", XiaomiTampered)),
      Advertisement(MacB, -80, ServiceData("fe95", SubSeq(XiaomiTemp, 1, 17))),
      Advertisement(MacA, -80, ServiceData("fe95", XiaomiNoKey)) }

\* Notifications of the polled connection: which closure, of which mac, req.
\* Device A runs the custom firmware and is polled as well as scanned.
Notifications ==
    { [kind |-> "atcTemp", mac |-> MacA, req |-> <<156, 255>>] }

notificationHandler(n) ==
    IF n.kind = "stock" THEN decodeStockCharacteristic(n.mac, n.req)
    ELSE IF n.kind = "atcTemp" THEN decodeAtcTemp(n.mac, n.req)
    ELSE IF n.kind = "atcHumidity" THEN decodeAtcHumidity(n.mac, n.req)
    ELSE decodeAtcBattery(n.mac, n.req)

----------------------------------------------------------------------------
(* The state machine *)

MetricSet == {Metrics[i] : i \in 1..Len(Metrics)}

\* The decoder harness before it has decoded
NoResult ==
    [ok   |-> FALSE,
     atc  |-> [sd |-> EmptySensorData, err |-> "none"],
     pvvx |-> [sd |-> EmptySensorData, err |-> "none"]]

\* The notification sources: the scan callback and the polled connection.
\* Each runs one handler at a time; the two run in parallel.
Sources == {"scan", "conn"}

Idle == [pc |-> "idle", mac |-> "", expiry |-> 0, pubs |-> <<>>]

\* The statements of the function given to time.AfterFunc, in order:
\* six DeleteLabelValues (1..6), Lock (7), delete and Unlock (8)
CallbackPcs == 1..8
CbLock == 7
CbDelete == 8

Init ==
    /\ expirers = [m \in Macs |-> 0]
    /\ timers = <<>>
    /\ expirersLock = "free"
    /\ gauges = [g \in MetricSet |-> [m \in Macs |-> NoSeries]]
    /\ procs = [s \in Sources |-> Idle]
    /\ callbacks = [k \in Macs \X CallbackPcs |-> 0]
    /\ crashed = FALSE
    /\ received = 0
    /\ dropped = [all |-> 0, armed |-> 0]
    /\ quiet = [m \in Macs |-> 0]
    /\ withdrawals = [m \in Macs |-> 0]
    /\ data = <<>>
    /\ frameMac = ""
    /\ edits = 0
    /\ out = NoResult
    /\ keyfile = <<>>
    /\ lines = <<>>
    /\ loaded = decryptionKeys

\* A handler is called and runs up to its call of bump, or returns at once,
\* or dies
Start(s, plan) ==
    /\ ~crashed
    /\ procs[s] = Idle
    /\ received' = received + 1
    /\ dropped' = IF plan.outcome = "return"
                   THEN [all   |-> dropped.all + 1,
                         armed |-> dropped.armed
                                     + IF \E t \in 1..Len(timers) : timers[t].armed
                                       THEN 1 ELSE 0]
                   ELSE dropped
    /\ procs' = [procs EXCEPT ![s] =
                    IF plan.outcome = "publish"
                    THEN [pc |-> "bump", mac |-> plan.mac, expiry |-> plan.expiry,
                          pubs |-> plan.pubs]
                    ELSE Idle]
    /\ crashed' = (plan.outcome = "panic")
    /\ UNCHANGED <<expirers, timers, expirersLock, gauges, callbacks,
                   quiet, withdrawals, dvars, kvars>>

\* advHandler(a), called by the scan
Advertise(a) ==
    /\ received < MaxInputs
    /\ Start("scan", advDispatch(a.sd, a.mac, a.rssi))

\* A closure subscribed by pollData, called with a notification
Notify(n) ==
    /\ received < MaxInputs
    /\ Start("conn", notificationHandler(n))

\* t.Reset(expiry): pending again, whether or not it had fired already
TimerReset(ts, t, expiry) ==
    [ts EXCEPT ![t].armed = TRUE, ![t].remaining = expiry]

\* time.AfterFunc(expiry, func() {...})
TimerAfterFunc(ts, mac, expiry) ==
    Append(ts, [mac |-> mac, armed |-> TRUE, remaining |-> expiry])

\* bump(mac, expiry), from Lock to Unlock
Bump(s) ==
    /\ ~crashed
    /\ procs[s].pc = "bump"
    /\ expirersLock = "free"
    /\ LET mac == procs[s].mac
           expiry == procs[s].expiry
       IN  /\ IF expirers[mac] # 0
              THEN /\ timers' = TimerReset(timers, expirers[mac], expiry)
                   /\ UNCHANGED <<expirers, withdrawals>>
              ELSE /\ timers' = TimerAfterFunc(timers, mac, expiry)
                   /\ expirers' = [expirers EXCEPT ![mac] = Len(timers) + 1]
                   /\ withdrawals' = [withdrawals EXCEPT ![mac] = 0]
           /\ quiet' = [quiet EXCEPT ![mac] = expiry]
    /\ procs' = [procs EXCEPT ![s].pc = "publish"]
    /\ UNCHANGED <<expirersLock, gauges, callbacks, crashed, received, dropped, dvars, kvars>>

\* gauge.WithLabelValues(Sensor, mac).Set(value): the handler's next one
PublishNext(s) ==
    /\ ~crashed
    /\ procs[s].pc = "publish"
    /\ LET pub  == Head(procs[s].pubs)
           rest == Tail(procs[s].pubs)
       IN  IF pub = PanicStep
           THEN /\ crashed' = TRUE
                /\ UNCHANGED <<gauges, procs>>
           ELSE /\ gauges' = [gauges EXCEPT ![pub[1]][procs[s].mac] = <<pub[2]>>]
                /\ procs' = [procs EXCEPT ![s] =
                                IF rest # <<>> THEN [@ EXCEPT !.pubs = rest] ELSE Idle]
                /\ UNCHANGED crashed
    /\ UNCHANGED <<expirers, timers, expirersLock, callbacks, received, dropped,
                   quiet, withdrawals, dvars, kvars>>

\* A pending timer whose duration has run out
Due(t) == timers[t].armed /\ timers[t].remaining = 0

\* The runtime starts the timer's function in its own goroutine
Fire(t) ==
    /\ ~crashed
    /\ Due(t)
    /\ timers' = [timers EXCEPT ![t].armed = FALSE]
    /\ callbacks' = [callbacks EXCEPT ![<<timers[t].mac, 1>>] = @ + 1]
    /\ UNCHANGED <<expirers, expirersLock, gauges, procs, crashed, received,
                   dropped, quiet, withdrawals, dvars, kvars>>

\* The timer function: the i-th of its six DeleteLabelValues(Sensor, mac)
CallbackWithdraw(m, i) ==
    /\ ~crashed
    /\ i \in 1..Len(Metrics)
    /\ callbacks[<<m, i>>] > 0
    /\ gauges' = [gauges EXCEPT ![Metrics[i]][m] = NoSeries]
    /\ callbacks' = [callbacks EXCEPT ![<<m, i>>] = @ - 1, ![<<m, i + 1>>] = @ + 1]
    /\ withdrawals' = IF i = 1 THEN [withdrawals EXCEPT ![m] = @ + 1] ELSE withdrawals
    /\ UNCHANGED <<expirers, timers, expirersLock, procs, crashed, received, dropped,
                   quiet, dvars, kvars>>

\* The timer function: expirersLock.Lock()
CallbackLock(m) ==
    /\ ~crashed
    /\ callbacks[<<m, CbLock>>] > 0
    /\ expirersLock = "free"
    /\ expirersLock' = "held"
    /\ callbacks' = [callbacks EXCEPT ![<<m, CbLock>>] = @ - 1,
                                      ![<<m, CbDelete>>] = @ + 1]
    /\ UNCHANGED <<expirers, timers, gauges, procs, crashed, received, dropped,
                   quiet, withdrawals, dvars, kvars>>

\* The timer function: delete(expirers, mac); expirersLock.Unlock(), and its
\* goroutine ends. Nothing else reads the map while the lock is held.
CallbackDelete(m) ==
    /\ ~crashed
    /\ callbacks[<<m, CbDelete>>] > 0
    /\ expirers' = [expirers EXCEPT ![m] = 0]
    /\ expirersLock' = "free"
    /\ callbacks' = [callbacks EXCEPT ![<<m, CbDelete>>] = @ - 1]
    /\ UNCHANGED <<timers, gauges, procs, crashed, received, dropped,
                   quiet, withdrawals, dvars, kvars>>

Pending == {t \in 1..Len(timers) : timers[t].armed}

RECURSIVE MinRemaining(_)
MinRemaining(ts) ==
    LET t == CHOOSE x \in ts : TRUE
    IN  IF ts = {t} THEN timers[t].remaining
        ELSE LET r == MinRemaining(ts \ {t})
             IN  IF timers[t].remaining < r THEN timers[t].remaining ELSE r

\* Time passes until the next pending timer is due; a timer that is due is
\* started before more time passes
Tick ==
    /\ ~crashed
    /\ Pending # {}
    /\ \A t \in Pending : ~Due(t)
    /\ LET d == MinRemaining(Pending)
       IN  /\ timers' = [t \in 1..Len(timers) |->
                           IF timers[t].armed
                           THEN [timers[t] EXCEPT !.remaining = @ - d]
                           ELSE timers[t]]
           /\ quiet' = [m \in Macs |-> IF quiet[m] > d THEN quiet[m] - d ELSE 0]
    /\ UNCHANGED <<expirers, expirersLock, gauges, procs, callbacks, crashed,
                   received, dropped, withdrawals, dvars, kvars>>

Next ==
    \/ \E a \in Advertisements : Advertise(a)
    \/ \E n \in Notifications : Notify(n)
    \/ \E s \in Sources : Bump(s)
    \/ \E s \in Sources : PublishNext(s)
    \/ \E t \in 1..Len(timers) : Fire(t)
    \/ \E m \in Macs, i \in 1..6 : CallbackWithdraw(m, i)
    \/ \E m \in Macs : CallbackLock(m)
    \/ \E m \in Macs : CallbackDelete(m)
    \/ Tick

Spec == Init /\ [][Next]_vars

----------------------------------------------------------------------------
(* The decoders applied to payloads: the harness starts from a captured    *)
(* payload, changes bytes of it, shortens or lengthens it, and decodes.    *)

\* Most bytes of a payload the harness changes
MaxEdits == 1

\* The payload lengths the harness covers
ShortestPayload == 11
LongestPayload == 16

PvvxCold == Reverse(AddrA) \o <<24, 252, 160, 15, 84, 11, 90, 124, 1>>

BasePayloads == {AtcWarm, AtcCold, PvvxWarm, PvvxCold}

EditValues == {0, 127, 128, 255}

DecodeInit ==
    /\ expirers = [m \in Macs |-> 0]
    /\ timers = <<>>
    /\ expirersLock = "free"
    /\ gauges = [g \in MetricSet |-> [m \in Macs |-> NoSeries]]
    /\ procs = [s \in Sources |-> Idle]
    /\ callbacks = [k \in Macs \X CallbackPcs |-> 0]
    /\ crashed = FALSE
    /\ received = 0
    /\ dropped = [all |-> 0, armed |-> 0]
    /\ quiet = [m \in Macs |-> 0]
    /\ withdrawals = [m \in Macs |-> 0]
    /\ data \in BasePayloads
    /\ frameMac \in Macs
    /\ edits = 0
    /\ out = NoResult
    /\ keyfile = <<>>
    /\ lines = <<>>
    /\ loaded = decryptionKeys

EditByte(i, v) ==
    /\ edits < MaxEdits
    /\ i \in 1..Len(data)
    /\ data[i] # v
    /\ data' = [data EXCEPT ![i] = v]
    /\ edits' = edits + 1
    /\ out' = NoResult
    /\ UNCHANGED <<frameMac, cvars, kvars>>

Shorten ==
    /\ Len(data) > ShortestPayload
    /\ data' = SubSeq(data, 1, Len(data) - 1)
    /\ out' = NoResult
    /\ UNCHANGED <<frameMac, edits, cvars, kvars>>

Lengthen ==
    /\ Len(data) < LongestPayload
    /\ data' = Append(data, 0)
    /\ out' = NoResult
    /\ UNCHANGED <<frameMac, edits, cvars, kvars>>

Decode ==
    /\ out = NoResult
    /\ out' = [ok   |-> TRUE,
               atc  |-> decodeATCData(data, frameMac),
               pvvx |-> decodePVVXData(data, frameMac)]
    /\ UNCHANGED <<data, frameMac, edits, cvars, kvars>>

DecodeNext ==
    \/ \E i \in 1..LongestPayload, v \in EditValues : EditByte(i, v)
    \/ Shorten
    \/ Lengthen
    \/ Decode

DecodeSpec == DecodeInit /\ [][DecodeNext]_vars

----------------------------------------------------------------------------
(* The handlers applied to delivered bytes: the harness starts from a       *)
(* payload a sensor sent or a notification value, changes bytes of it or    *)
(* cuts it short, and hands it to registerData, to decryptData and to the   *)
(* temperature closures of the polled connection.                           *)

\* Inner records as the stock firmware seals them: tag, 0x10, length, value
InnerTemp == <<4, 16, 2, 12, 1>>
InnerCold == <<4, 16, 2, 156, 255>>
InnerHum == <<6, 16, 2, 20, 2>>
InnerBatt == <<10, 16, 1, 100>>
InnerBoth == <<13, 16, 4, 12, 1, 20, 2>>
InnerOther == <<7, 16, 3, 1, 2, 3>>
\* Records a holder of the key can seal as well: shorter than their tag's
\* layout, or empty
InnerBattShort == <<10, 16, 1>>
InnerTempShort == <<4, 16, 2, 12>>
InnerEmpty == <<>>

InnerRecords ==
    {InnerTemp, InnerCold, InnerHum, InnerBatt, InnerBoth, InnerOther,
     InnerBattShort, InnerTempShort, InnerEmpty}

\* A key that is not device B's
KeyOther == [i \in 1..16 |-> 48 + i]

\* Values of the stock firmware's characteristic (temperature in hundredths,
\* humidity, millivolts) and of the custom firmware's temperature
\* characteristic (tenths)
StockWarm == <<120, 10, 53, 184, 11>>
StockCold == <<24, 252, 53, 184, 11>>
AtcTempWarm == <<12, 1>>
AtcTempCold == <<156, 255>>

HandlerInputs ==
    {XiaomiFrame(AddrB, KeyB, r, <<7, 0, 0>>) : r \in InnerRecords}
        \cup {XiaomiFrame(AddrB, KeyOther, InnerTemp, <<7, 0, 0>>), XiaomiNoKey,
              AtcCold, PvvxCold, StockWarm, StockCold, AtcTempWarm, AtcTempCold}

\* What the backing array of ccm.Open's result may hold behind the plaintext
Spares == {<<>>, <<0, 0, 0, 0>>, <<255, 255, 255, 255>>}

\* a.RSSI()
Rssi == -70

\* The handler harness before it has delivered
NoOutcome ==
    [ok |-> FALSE, reg |-> Return, dec |-> Return, spare |-> <<>>,
     open |-> [called |-> FALSE, nonce |-> <<>>, ciphertext |-> <<>>],
     opened |-> [err |-> "not called", dst |-> <<>>],
     stock |-> Return, atcTemp |-> Return]

HandlerInit ==
    /\ expirers = [m \in Macs |-> 0]
    /\ timers = <<>>
    /\ expirersLock = "free"
    /\ gauges = [g \in MetricSet |-> [m \in Macs |-> NoSeries]]
    /\ procs = [s \in Sources |-> Idle]
    /\ callbacks = [k \in Macs \X CallbackPcs |-> 0]
    /\ crashed = FALSE
    /\ received = 0
    /\ dropped = [all |-> 0, armed |-> 0]
    /\ quiet = [m \in Macs |-> 0]
    /\ withdrawals = [m \in Macs |-> 0]
    /\ data \in HandlerInputs
    /\ frameMac \in Macs
    /\ edits = 0
    /\ out = NoOutcome
    /\ keyfile = <<>>
    /\ lines = <<>>
    /\ loaded = decryptionKeys

\* One byte changed in flight
Tamper(i, v) ==
    /\ edits < MaxEdits
    /\ i \in 1..Len(data)
    /\ data[i] # v
    /\ data' = [data EXCEPT ![i] = v]
    /\ edits' = edits + 1
    /\ out' = NoOutcome
    /\ UNCHANGED <<frameMac, cvars, kvars>>

\* Only the first n bytes arrive
Cut(n) ==
    /\ edits < MaxEdits
    /\ n < Len(data)
    /\ data' = SubSeq(data, 1, n)
    /\ edits' = edits + 1
    /\ out' = NoOutcome
    /\ UNCHANGED <<frameMac, cvars, kvars>>

\* The bytes are handed to each handler
Deliver(spare) ==
    /\ out = NoOutcome
    /\ out' = [ok      |-> TRUE,
               reg     |-> registerData(data, frameMac, Rssi),
               dec     |-> decryptData(data, frameMac, spare, Rssi),
               spare   |-> spare,
               open    |-> openArguments(data, frameMac),
               opened  |-> openResult(data, frameMac),
               stock   |-> decodeStockCharacteristic(frameMac, data),
               atcTemp |-> decodeAtcTemp(frameMac, data)]
    /\ UNCHANGED <<data, frameMac, edits, cvars, kvars>>

\* The longest payload of HandlerInputs: 18 bytes around the longest record
LongestFrame == 11 + 3 + 4 + Len(InnerBoth)

HandlerNext ==
    \/ \E i \in 1..LongestFrame, v \in EditValues : Tamper(i, v)
    \/ \E n \in 0..LongestFrame : Cut(n)
    \/ \E spare \in Spares : Deliver(spare)

HandlerSpec == HandlerInit /\ [][HandlerNext]_vars

----------------------------------------------------------------------------
(* loadKeys: the key file is read line by line.  A line is a sequence of    *)
(* one-character strings.                                                   *)

\* Most lines of a key file
MaxLines == 3

RECURSIVE TrimLeft(_)
TrimLeft(l) == IF l # <<>> /\ Head(l) = " " THEN TrimLeft(Tail(l)) ELSE l

RECURSIVE TrimRight(_)
TrimRight(l) ==
    IF l # <<>> /\ l[Len(l)] = " " THEN TrimRight(SubSeq(l, 1, Len(l) - 1)) ELSE l

\* strings.TrimSpace
TrimSpace(l) == TrimRight(TrimLeft(l))

\* strings.HasPrefix(line, "#")
HasPrefixHash(l) == l # <<>> /\ Head(l) = "#"

\* strings.SplitN(line, " ", 2): the line itself when it holds no space, else
\* what stands before the first space and what stands after it
SplitN2(l) ==
    LET sp == {i \in 1..Len(l) : l[i] = " "} IN
    IF sp = {}
    THEN <<l>>
    ELSE LET i == CHOOSE x \in sp : \A y \in sp : x <= y
         IN  <<SubSeq(l, 1, i - 1), SubSeq(l, i + 1, Len(l))>>

HexValues ==
    [c \in {"0", "1", "2", "3", "4", "5", "6", "7", "8", "9", "a", "b", "c",
            "d", "e", "f", "A", "B", "C", "D", "E", "F"} |->
        CASE c = "0" -> 0 [] c = "1" -> 1 [] c = "2" -> 2 [] c = "3" -> 3
          [] c = "4" -> 4 [] c = "5" -> 5 [] c = "6" -> 6 [] c = "7" -> 7
          [] c = "8" -> 8 [] c = "9" -> 9
          [] c \in {"a", "A"} -> 10 [] c \in {"b", "B"} -> 11
          [] c \in {"c", "C"} -> 12 [] c \in {"d", "D"} -> 13
          [] c \in {"e", "E"} -> 14 [] c \in {"f", "F"} -> 15]

\* hex.DecodeString: one byte per two digits; an error for an odd length or
\* a character that is no hex digit
hexDecodeString(t) ==
    IF Len(t) % 2 # 0 \/ \E i \in 1..Len(t) : t[i] \notin DOMAIN HexValues
    THEN [err |-> "invalid", bytes |-> <<>>]
    ELSE [err |-> "nil",
          bytes |-> [i \in 1..(Len(t) \div 2) |->
                        16 * HexValues[t[2 * i - 1]] + HexValues[t[2 * i]]]]

RECURSIVE Join(_)
\* The Go string of a sequence of characters
Join(l) == IF l = <<>> THEN "" ELSE Head(l) \o Join(Tail(l))

\* One pass of the loop of loadKeys over a line: "skip" (continue), "add"
\* (decryptionKeys[mac] = key), or "panic" (fields[1] of a one-field line)
loadLine(text) ==
    LET line   == TrimSpace(text)
        fields == SplitN2(line)
    IN  IF HasPrefixHash(line)
        THEN [step |-> "skip", mac |-> "", key |-> <<>>]
        ELSE IF Len(fields[1]) # 12
        THEN [step |-> "skip", mac |-> "", key |-> <<>>]
        ELSE IF Len(fields) < 2
        THEN [step |-> "panic", mac |-> "", key |-> <<>>]
        ELSE IF Len(fields[2]) # 32
        THEN [step |-> "skip", mac |-> "", key |-> <<>>]
        ELSE LET k == hexDecodeString(fields[2]) IN
             IF k.err # "nil"
             THEN [step |-> "skip", mac |-> "", key |-> <<>>]
             ELSE [step |-> "add", mac |-> Join(fields[1]), key |-> k.bytes]

\* Lines of a key file: the README's comment line, device B's line, a line
\* for device A with surrounding blanks, an empty line, an identifier with
\* no key, an identifier and a key of 30 digits, a key holding a "g"
LineComment == <<"#", " ", "M", "A", "C", " ", "K", "E", "Y">>
KeyBDigits ==
    <<"1", "1", "1", "2", "1", "3", "1", "4", "1", "5", "1", "6", "1", "7",
      "1", "8", "1", "9", "1", "a", "1", "b", "1", "c", "1", "d", "1", "e",
      "1", "f", "2", "0">>
KeyADigits ==
    <<"A", "1", "A", "2", "A", "3", "A", "4", "A", "5", "A", "6", "A", "7",
      "A", "8", "A", "9", "A", "A", "A", "B", "A", "C", "A", "D", "A", "E",
      "A", "F", "B", "0">>
MacBChars == <<"A", "4", "C", "1", "3", "8", "0", "1", "0", "2", "0", "3">>
MacAChars == <<"4", "C", "5", "9", "5", "7", "5", "3", "4", "4", "3", "0">>

LineB == MacBChars \o <<" ">> \o KeyBDigits
LineA == <<" ">> \o MacAChars \o <<" ">> \o KeyADigits \o <<" ">>
LineEmpty == <<>>
LineMacOnly == MacBChars
LineShortKey == MacBChars \o <<" ">> \o SubSeq(KeyBDigits, 1, 30)
LineNotHex == MacBChars \o <<" ">> \o <<"g">> \o SubSeq(KeyBDigits, 2, 32)

KeyFileLines ==
    {LineComment, LineB, LineA, LineEmpty, LineMacOnly, LineShortKey, LineNotHex}

RECURSIVE FilesOf(_)
\* The key files of n lines
FilesOf(n) ==
    IF n = 0 THEN {<<>>}
    ELSE {Append(f, l) : f \in FilesOf(n - 1), l \in KeyFileLines}

LoadInit ==
    /\ expirers = [m \in Macs |-> 0]
    /\ timers = <<>>
    /\ expirersLock = "free"
    /\ gauges = [g \in MetricSet |-> [m \in Macs |-> NoSeries]]
    /\ procs = [s \in Sources |-> Idle]
    /\ callbacks = [k \in Macs \X CallbackPcs |-> 0]
    /\ crashed = FALSE
    /\ received = 0
    /\ dropped = [all |-> 0, armed |-> 0]
    /\ quiet = [m \in Macs |-> 0]
    /\ withdrawals = [m \in Macs |-> 0]
    /\ data = <<>>
    /\ frameMac = ""
    /\ edits = 0
    /\ out = NoResult
    /\ keyfile \in UNION {FilesOf(n) : n \in 0..MaxLines}
    /\ lines = keyfile
    /\ loaded = <<>>

\* for scanner.Scan() { ... }: the next line of the file
ScanLine ==
    /\ ~crashed
    /\ lines # <<>>
    /\ LET r == loadLine(Head(lines)) IN
          /\ crashed' = (r.step = "panic")
          /\ loaded' = IF r.step = "add"
                       THEN [m \in DOMAIN loaded \cup {r.mac} |->
                                IF m = r.mac THEN r.key ELSE loaded[m]]
                       ELSE loaded
    /\ lines' = Tail(lines)
    /\ UNCHANGED <<expirers, timers, expirersLock, gauges, procs, callbacks,
                   received, dropped, quiet, withdrawals, dvars, keyfile>>

LoadNext == ScanLine

LoadSpec == LoadInit /\ [][LoadNext]_vars

----------------------------------------------------------------------------
(* Properties of the plaintext decoders *)

\* The address bytes a device identifier stands for
AddrOf(mac) == IF mac = MacA THEN AddrA ELSE AddrB

Decoded == out.ok

\* C8: decodeATCData (decodePVVXData) returns a record without error exactly
\* when the payload is 13 (15) bytes long and bytes 0-5, in natural
\* (reversed) order, are the expected address; otherwise it returns an
\* error and the empty record.
C8_DecodeIffLengthAndAddress ==
    Decoded =>
        /\ out.atc.err = "nil" <=>
              (Len(data) = 13 /\ SubSeq(data, 1, 6) = AddrOf(frameMac))
        /\ out.pvvx.err = "nil" <=>
              (Len(data) = 15 /\ Reverse(SubSeq(data, 1, 6)) = AddrOf(frameMac))
        /\ out.atc.err # "nil" => out.atc.sd = EmptySensorData
        /\ out.pvvx.err # "nil" => out.pvvx.sd = EmptySensorData
        /\ out.atc.err = "nil" => out.atc.sd.mac = frameMac
        /\ out.pvvx.err = "nil" => out.pvvx.sd.mac = frameMac

\* A payload of valid length is refused for its address alone
C8_Witness ==
    /\ Decoded
    /\ Len(data) = 13
    /\ out.atc.err = "MAC mismatch"
    /\ out.atc.sd = EmptySensorData

Signed16(v) == IF v < 32768 THEN v ELSE v - 65536

\* C9: for a 13-byte payload carrying the expected address, decodeATCData
\* returns the address in hex, the temperature as the signed big-endian
\* value of bytes 6-7 in tenths, humidity byte 8, battery percent byte 9,
\* battery millivolts the big-endian value of bytes 10-11, frame byte 12;
\* the captured payload 4C 59 57 53 44 30 01 0C 35 64 0B B8 7B gives 26.8,
\* 53, 100, 3.0 V, 123.
C9_AtcFields ==
    /\ (Decoded /\ Len(data) = 13 /\ SubSeq(data, 1, 6) = AddrOf(frameMac)) =>
          /\ out.atc.err = "nil"
          /\ out.atc.sd.mac = frameMac
          /\ out.atc.sd.temp = 100 * Signed16(256 * data[7] + data[8])
          /\ out.atc.sd.hum = 1000 * data[9]
          /\ out.atc.sd.batp = 1000 * data[10]
          /\ out.atc.sd.batv = 256 * data[11] + data[12]
          /\ out.atc.sd.frame = 1000 * data[13]
    /\ (Decoded /\ frameMac = "4C5957534430"
          /\ data = <<76, 89, 87, 83, 68, 48, 1, 12, 53, 100, 11, 184, 123>>) =>
          out.atc = [sd |-> [mac |-> "4C5957534430", temp |-> 26800,
                             hum |-> 53000, batp |-> 100000, batv |-> 3000,
                             frame |-> 123000],
                     err |-> "nil"]

\* A sub-zero reading is decoded
C9_Witness ==
    /\ Decoded
    /\ out.atc.err = "nil"
    /\ data[7] >= 128
    /\ out.atc.sd.temp < 0

\* C10: for a 15-byte payload whose bytes 5..0 are the expected address,
\* decodePVVXData returns the address in hex, temperature and humidity as
\* the signed little-endian values of bytes 6-7 and 8-9 in hundredths,
\* battery millivolts the little-endian value of bytes 10-11, battery
\* percent byte 12, frame byte 13, whatever the flag byte 14 is.
C10_PvvxFields ==
    (Decoded /\ Len(data) = 15 /\ Reverse(SubSeq(data, 1, 6)) = AddrOf(frameMac)) =>
        /\ out.pvvx.err = "nil"
        /\ out.pvvx.sd.mac = frameMac
        /\ out.pvvx.sd.temp = 10 * Signed16(data[7] + 256 * data[8])
        /\ out.pvvx.sd.hum = 10 * Signed16(data[9] + 256 * data[10])
        /\ out.pvvx.sd.batv = data[11] + 256 * data[12]
        /\ out.pvvx.sd.batp = 1000 * data[13]
        /\ out.pvvx.sd.frame = 1000 * data[14]

\* A payload with flag bits set and a sub-zero reading is decoded
C10_Witness ==
    /\ Decoded
    /\ out.pvvx.err = "nil"
    /\ data[15] # 0
    /\ out.pvvx.sd.temp < 0

----------------------------------------------------------------------------
(* Properties of the liveness tracker *)

PendingOf(m) == {t \in Pending : timers[t].mac = m}

Running(m) == \E pc \in CallbackPcs : callbacks[<<m, pc>>] > 0

Published(m) == {g \in MetricSet : gauges[g][m] # NoSeries}

\* C1: each device has at most one pending expiry timer.
C1_AtMostOneTimerPerDevice ==
    \A m \in Macs : Cardinality(PendingOf(m)) <= 1

\* C2: a bump that meets the firing of the device's timer ends either with
\* the entry withdrawn and a fresh entry created, or with the deadline
\* replaced and no withdrawal: every pending timer is the one the map holds,
\* never a timer whose entry a withdrawal has removed.
C2_NoWithdrawalWithStaleRearm ==
    \A t \in Pending : expirers[timers[t].mac] = t

\* C3: between two creations of a device's entry, and after the last one,
\* the withdrawal runs at most once.
C3_AtMostOneWithdrawalPerEntry ==
    \A m \in Macs : withdrawals[m] <= 1

\* C4: no series of a device is withdrawn while less than the bump's
\* duration has passed since the device was last bumped.
C4_NoWithdrawalBeforeDeadline ==
    [][\A m \in Macs :
          (\E i \in 1..6 : CallbackWithdraw(m, i)) => quiet[m] = 0]_vars

\* Nothing remains to happen for m unless it reports again
AtRest(m) ==
    /\ \A s \in Sources : procs[s].mac # m
    /\ PendingOf(m) = {}
    /\ ~Running(m)

\* C5: once a device has fallen silent and its timers and their functions
\* have run, the device has no entry and no published series.
C5_SilentDeviceIsWithdrawn ==
    \A m \in Macs : AtRest(m) => expirers[m] = 0 /\ Published(m) = {}

\* C6: when a timer function has removed the entry and ended, none of the
\* device's six series is published.
C6_WithdrawalIsComplete ==
    [][\A m \in Macs : CallbackDelete(m) =>
          (expirers'[m] = 0 /\ \A g \in MetricSet : gauges'[g][m] = NoSeries)]_vars

\* The ways a beacon fails to decode
PlaintextFails(a) ==
    \/ Len(a.sd.data) \notin {13, 15}
    \/ Len(a.sd.data) = 13 /\ SubSeq(a.sd.data, 1, 6) # AddrOf(a.mac)
    \/ Len(a.sd.data) = 15 /\ Reverse(SubSeq(a.sd.data, 1, 6)) # AddrOf(a.mac)

EncryptedFails(a) ==
    \/ Len(a.sd.data) < 18
    \/ Reverse(SubSeq(a.sd.data, 6, 11)) # AddrOf(a.mac)
    \/ a.mac \notin DOMAIN decryptionKeys
    \/ CcmOpen(decryptionKeys[a.mac], Nonce(a.sd.data), Ciphertext(a.sd.data),
               Aad).err # "nil"

DecodeFails(a) ==
    \/ a.sd.uuid = "181a" /\ PlaintextFails(a)
    \/ a.sd.uuid = "fe95" /\ EncryptedFails(a)

FailingAdvertisements == {a \in Advertisements : DecodeFails(a)}

\* C7: the handler of a beacon that fails to decode returns without a bump
\* and without a publication: the map, the timers and the published series
\* are as before the call.
C7_FailedDecodeHasNoEffect ==
    [][\A a \in FailingAdvertisements :
          Advertise(a) =>
              /\ procs'["scan"] = Idle
              /\ dropped'.all = dropped.all + 1
              /\ ~crashed'
              /\ UNCHANGED <<expirers, timers, gauges, quiet>>]_vars

\* A beacon has been dropped while device A's entry was pending and its
\* series were published
C7_Witness ==
    /\ dropped.armed > 0
    /\ expirers[MacA] # 0
    /\ PendingOf(MacA) # {}
    /\ Published(MacA) = MetricSet
    /\ \A s \in Sources : procs[s] = Idle

----------------------------------------------------------------------------
(* Properties of the handlers *)

\* The gauge writes of a handler's plan hold no statement that panics
RunsToEnd(plan) ==
    /\ plan.outcome \in {"return", "publish"}
    /\ \A i \in 1..Len(plan.pubs) : plan.pubs[i] # PanicStep

\* C11: whatever payload registerData or decryptData is given, the handler
\* publishes or drops it and returns: no read of the payload or of the
\* decrypted record is out of range.
C11_NoBeaconIsFatal ==
    out.ok => RunsToEnd(out.reg) /\ RunsToEnd(out.dec)

\* What a plan publishes for gauge g: <<value>>, or <<>> when nothing
ValueOf(plan, g) ==
    LET at == {i \in 1..Len(plan.pubs) : plan.pubs[i][1] = g}
    IN  IF at = {} THEN <<>> ELSE <<plan.pubs[CHOOSE i \in at : TRUE][2]>>

\* The record holds every field of its tag's layout
HoldsItsFields(dst) ==
    /\ Len(dst) >= 1
    /\ dst[1] \in {4, 6} => Len(dst) >= 5
    /\ dst[1] = 10 => Len(dst) >= 4
    /\ dst[1] = 13 => Len(dst) >= 7

\* Little-endian tenths at inner offsets lo, lo+1, in thousandths
Tenths(dst, lo) == 100 * (dst[lo + 1] + 256 * dst[lo + 2])

\* C12: the first byte of the decrypted record selects what is published:
\* 0x04 the temperature (offsets 3-4), 0x06 the humidity (3-4), 0x0A the
\* battery percent (byte 3), 0x0D with byte 2 = 0x04 temperature (3-4) and
\* humidity (5-6), any other tag none of the three, without error.
C12_TagSelectsDimensions ==
    (out.ok /\ out.opened.err = "nil" /\ HoldsItsFields(out.opened.dst)) =>
        LET dst  == out.opened.dst
            both == dst[1] = 13 /\ dst[3] = 4
        IN  /\ RunsToEnd(out.dec)
            /\ out.dec.outcome = "publish"
            /\ ValueOf(out.dec, "tempGauge") =
                  IF dst[1] = 4 \/ both THEN <<Tenths(dst, 3)>> ELSE <<>>
            /\ ValueOf(out.dec, "humGauge") =
                  IF dst[1] = 6 THEN <<Tenths(dst, 3)>>
                  ELSE IF both THEN <<Tenths(dst, 5)>> ELSE <<>>
            /\ ValueOf(out.dec, "battGauge") =
                  IF dst[1] = 10 THEN <<1000 * dst[4]>> ELSE <<>>

----------------------------------------------------------------------------
(* Properties of loadKeys *)

\* A line of the documented form: a 12-character identifier, a space, 32 hex
\* digits, blanks around them allowed
WellFormed(text) ==
    LET t == TrimSpace(text) IN
    /\ Len(t) = 12 + 1 + 32
    /\ t[1] # "#"
    /\ \A i \in 1..12 : t[i] # " "
    /\ t[13] = " "
    /\ \A i \in 14..45 : t[i] \in DOMAIN HexValues

IdOf(text) == Join(SubSeq(TrimSpace(text), 1, 12))

\* The lines of the key file read so far
Scanned == 1..(Len(keyfile) - Len(lines))

\* C13: no line aborts the loading: every line read so far has added a
\* 16-byte key under its 12-character identifier or was skipped, and the
\* well-formed lines among them are loaded, whatever lines came before them.
C13_LoadNeverAborts ==
    /\ ~crashed
    /\ \A i \in Scanned : WellFormed(keyfile[i]) => IdOf(keyfile[i]) \in DOMAIN loaded
    /\ \A m \in DOMAIN loaded :
          /\ Len(loaded[m]) = 16
          /\ \E i \in Scanned : WellFormed(keyfile[i]) /\ IdOf(keyfile[i]) = m

----------------------------------------------------------------------------
(* Properties of the timer function's locking *)

\* A timer function of m has begun its withdrawal and not yet removed the
\* entry
Withdrawing(m) == \E pc \in 2..CbDelete : callbacks[<<m, pc>>] > 0

\* C14: the timer function holds the lock while it deletes the six series
\* and while it removes the entry, so no bump of the device runs between
\* the start of a withdrawal and the removal of the entry.
C14_CallbackHoldsLock ==
    [][\A m \in Macs :
          /\ (\E i \in 1..6 : CallbackWithdraw(m, i)) => expirersLock = "held"
          /\ CallbackDelete(m) => expirersLock = "held"
          /\ \A s \in Sources :
                (Bump(s) /\ procs[s].mac = m) => ~Withdrawing(m)]_vars

----------------------------------------------------------------------------
(* Properties of what decryptData hands to the cipher *)

\* Payload bytes at the 0-based offsets lo .. hi
Bytes(lo, hi) == SubSeq(data, lo + 1, hi + 1)

\* The nonce and the ciphertext are cut from the payload as stated: address
\* bytes 5-10, type bytes 2-4, the 3 counter bytes before the 4-byte tag;
\* bytes 11 .. length-8 and the last 4 bytes, the counter left out
CutAsStated ==
    LET n == Len(data) IN
    /\ out.open.nonce = Bytes(5, 10) \o Bytes(2, 4) \o Bytes(n - 7, n - 5)
    /\ out.open.ciphertext = Bytes(11, n - 8) \o Bytes(n - 4, n - 1)
    /\ Len(out.open.ciphertext) = n - 11 - 3

\* C15, as stated: for a payload of at least 18 bytes the nonce handed to
\* the cipher is 13 bytes long and is address, sensor type and counter; the
\* ciphertext is bytes 11 .. length-8 and the last 4 bytes.
C15_NonceOf13Bytes ==
    (out.ok /\ out.open.called) =>
        /\ Len(data) >= 18
        /\ Len(out.open.nonce) = 13
        /\ CutAsStated

\* C15, amended: the nonce handed to the cipher is 12 bytes long (6 address
\* bytes, 3 type bytes, 3 counter bytes); the rest as stated.
C15_NonceOf12Bytes ==
    (out.ok /\ out.open.called) =>
        /\ Len(data) >= 18
        /\ Len(out.open.nonce) = 12
        /\ CutAsStated

\* A payload carrying a 5-byte record was handed to the cipher and opened:
\* its counter differs from the bytes around it
C15_Witness ==
    /\ out.ok
    /\ out.open.called
    /\ out.opened.err = "nil"
    /\ Len(data) = 18 + 5
    /\ Bytes(Len(data) - 7, Len(data) - 5) = <<7, 0, 0>>
    /\ Len(out.open.ciphertext) = 5 + 4

----------------------------------------------------------------------------
(* Properties of the sign of published temperatures *)

\* A plan that publishes a temperature publishes the 16-bit field v read as
\* signed, in thousandths of a degree at the given scale
SignedTemp(plan, v, scale) ==
    ValueOf(plan, "tempGauge") # <<>> =>
        ValueOf(plan, "tempGauge") = <<scale * Signed16(v)>>

BigEndian(s, lo) == 256 * s[lo + 1] + s[lo + 2]
LittleEndian(s, lo) == s[lo + 1] + 256 * s[lo + 2]

\* C16: every path that publishes a temperature reads its 16-bit field as
\* signed: Format A (tenths), Format B (hundredths), the encrypted record
\* with tag 0x04 (tenths), the stock characteristic (hundredths) and the
\* ATC temperature characteristic (tenths).
C16_TemperatureIsSigned ==
    out.ok =>
        /\ Len(data) = 13 => SignedTemp(out.reg, BigEndian(data, 6), 100)
        /\ Len(data) = 15 => SignedTemp(out.reg, LittleEndian(data, 6), 10)
        /\ (out.opened.err = "nil" /\ Len(out.opened.dst) >= 5) =>
              SignedTemp(out.dec, LittleEndian(out.opened.dst, 3), 100)
        /\ Len(data) >= 2 => SignedTemp(out.stock, LittleEndian(data, 0), 10)
        /\ Len(data) >= 2 => SignedTemp(out.atcTemp, LittleEndian(data, 0), 100)

====
